---- MODULE Spec2Model ----
(***************************************************************************)
(* Model of folding-schemes/src/folding/nova/circuits.rs:                  *)
(* AugmentedFCircuit::generate_constraints (one action per block of the    *)
(* synthesis, in program order) and tests::test_challenge_gadget.          *)
(*                                                                         *)
(* The generic curve cycle (C1, C2) is instantiated with a toy 2-cycle:    *)
(*   C1 : y^2 = x^3 + x + 6 over F_1087, of prime order 1109               *)
(*   C2 : y^2 = x^3 + x + 5 over F_1109, of prime order 1087               *)
(* so CF1<C1> = C2::BaseField = F_1109 is the circuit's native field and   *)
(* C1::BaseField = CF1<C2> = F_1087 is the non-native one.                 *)
(***************************************************************************)
EXTENDS Integers, Naturals, Sequences, FiniteSets, TLC

VARIABLES bundle, env, pc, ivc

vars == <<bundle, env, pc, ivc>>

(***************************************************************************)
(* Bounds of the model.                                                    *)
(***************************************************************************)
\* largest step counter i put in a bundle
MaxStep == 2
\* largest state / external-input value put in a bundle
MaxZ == 1
\* number of distinct choices of the curve-point witnesses
MaxPat == 2

(***************************************************************************)
(* Fields and curves.                                                      *)
(***************************************************************************)
\* modulus of CF1<C1> (= C2::BaseField), the native field of the circuit
FrModulus == 1109
\* modulus of C1::BaseField (= CF1<C2>), the non-native field
FqModulus == 1087
\* coefficient a of both curves
CurveA == 1
\* C1::BaseField::MODULUS_BIT_SIZE
FqBitSize == 11
\* number of challenge bits squeezed from the transcript
NBitsRO == 3
\* NovaCycleFoldConfig::IO_LEN
IO_LEN == 7
\* F.state_len() and F.external_inputs_len()
StateLen == 1
\* round constant of the sponge permutation
RoundConst == 7

\* the point at infinity, allocated as the affine pair (0, 0)
Zero == <<0, 0>>
\* generator of C1
G1 == <<2, 4>>
\* generator of C2
G2 == <<0, 296>>

\* acc * x^e in F_p by square and multiply
PowAcc[p \in Int, x \in Int, e \in Int, acc \in Int] ==
  IF e = 0 THEN acc
  ELSE PowAcc[p, (x * x) % p, e \div 2, IF e % 2 = 1 THEN (acc * x) % p ELSE acc]

Pow(p, x, e) == PowAcc[p, x, e, 1]

\* the inverses of the nonzero elements of the two fields, x^(p-2)
InvFr == <<>> \o [x \in 1..(FrModulus - 1) |-> Pow(FrModulus, x, FrModulus - 2)]

InvFq == <<>> \o [x \in 1..(FqModulus - 1) |-> Pow(FqModulus, x, FqModulus - 2)]

Inv(p, x) == IF p = FrModulus THEN InvFr[x % p] ELSE InvFq[x % p]

\* affine addition on y^2 = x^3 + CurveA*x + b over F_p
ECAdd(p, A, B) ==
  IF A = Zero THEN B
  ELSE IF B = Zero THEN A
  ELSE IF A[1] = B[1] /\ (A[2] + B[2]) % p = 0 THEN Zero
  ELSE LET lam == IF A = B
                  THEN ((3 * ((A[1] * A[1]) % p) + CurveA) * Inv(p, 2 * A[2])) % p
                  ELSE (((B[2] - A[2]) % p) * Inv(p, B[1] - A[1])) % p
           x3 == (lam * lam - A[1] - B[1]) % p
           y3 == (lam * ((A[1] - x3) % p) - A[2]) % p
       IN <<x3, y3>>

\* double-and-add over a little-endian bit sequence: acc + bits * A
MulAcc[p \in Int, bits \in Seq(Int), A \in Seq(Int), acc \in Seq(Int)] ==
  IF bits = <<>> THEN acc
  ELSE MulAcc[p, Tail(bits), ECAdd(p, A, A),
              IF Head(bits) = 1 THEN ECAdd(p, acc, A) ELSE acc]

\* scalar multiplication by a little-endian bit sequence (scalar_mul_le)
ECMulLE(p, bits, A) == MulAcc[p, bits, A, Zero]

\* the n low bits of v, least significant first
ToBitsLE(v, n) == [k \in 1..n |-> (v \div (2 ^ (k - 1))) % 2]

\* the integer with the given little-endian bits
BitsAcc[bits \in Seq(Int), k \in Int, acc \in Int] ==
  IF k = 0 THEN acc ELSE BitsAcc[bits, k - 1, 2 * acc + bits[k]]

FromBitsLE(bits) == BitsAcc[bits, Len(bits), 0]

\* Vec::resize(n, Boolean::FALSE)
Resize(bits, n) ==
  IF Len(bits) >= n THEN SubSeq(bits, 1, n)
  ELSE bits \o [k \in 1..(n - Len(bits)) |-> 0]

\* scalar multiplication by an integer scalar
ECMul(p, k, A) == ECMulLE(p, ToBitsLE(k, FqBitSize), A)

\* Option<T>: <<>> is None, <<v>> is Some(v)
None == <<>>
Some(v) == <<v>>
UnwrapOr(o, d) == IF o = None THEN d ELSE o[1]

(***************************************************************************)
(* The cryptographic sponge (native and in-circuit, same outputs).         *)
(***************************************************************************)
SpongeNew == 0

Perm(t) == ((((t * t) % FrModulus) * t) + RoundConst) % FrModulus

\* absorb(elems): each element in turn is added to the state, which is then
\* permuted
Absorb[s \in Int, elems \in Seq(Int)] ==
  IF elems = <<>> THEN s
  ELSE Absorb[Perm((s + Head(elems)) % FrModulus), Tail(elems)]

\* squeeze_field_elements(1): the output and the sponge state left behind
SqueezeField(s) == [out |-> s, sponge |-> Perm(s)]

\* squeeze_bits(n)
SqueezeBits(s, n) == [bits |-> ToBitsLE(s, n), sponge |-> Perm(s)]

(***************************************************************************)
(* Committed instances.                                                    *)
(***************************************************************************)
\* CommittedInstance::dummy(io_len)
Dummy(io_len) ==
  [cmE |-> Zero, u |-> 0, cmW |-> Zero, x |-> [k \in 1..io_len |-> 0]]

u_dummy == Dummy(2)

cf_u_dummy == Dummy(IO_LEN)

\* canonical absorbable encoding [u] ++ x ++ coords(cmE) ++ coords(cmW)
Serialize(U) == <<U.u>> \o U.x \o U.cmE \o U.cmW

\* CommittedInstanceVar::hash(&sponge, pp_hash, i, z_0, z_i)
HashPrimary(sponge, pp_hash, i, z_0, z_i, U) ==
  LET U_vec == Serialize(U)
      s == Absorb[sponge, <<pp_hash, i>> \o z_0 \o z_i \o U_vec]
  IN <<SqueezeField(s).out, U_vec>>

\* CycleFoldCommittedInstanceVar::hash(&sponge, pp_hash)
HashCycleFold(sponge, pp_hash, U) ==
  LET U_vec == Serialize(U)
      s == Absorb[sponge, <<pp_hash>> \o U_vec]
  IN <<SqueezeField(s).out, U_vec>>

(***************************************************************************)
(* Gadgets of the folding schemes used by the augmented circuit.           *)
(***************************************************************************)
\* ChallengeGadget::get_challenge_native: absorbs pp_hash, U, u and cmT
ChallengeNative(transcript, pp_hash, U, u, cmT) ==
  LET s1 == Absorb[transcript, <<pp_hash>>]
      s2 == Absorb[s1, Serialize(U)]
      s3 == Absorb[s2, Serialize(u)]
      s4 == Absorb[s3, cmT]
  IN SqueezeBits(s4, NBitsRO)

\* ChallengeGadget::get_challenge_gadget: U arrives already serialized
ChallengeGadget(transcript, pp_hash, U_vec, u, cmT) ==
  LET s1 == Absorb[transcript, <<pp_hash>>]
      s2 == Absorb[s1, U_vec]
      s3 == Absorb[s2, Serialize(u)]
      s4 == Absorb[s3, cmT]
  IN SqueezeBits(s4, NBitsRO)

\* variant of the fold that leaves the public inputs of U untouched
NIFSFoldKeepsX(r, U, u) ==
  [cmE |-> Zero,
   u   |-> (U.u + r * u.u) % FrModulus,
   cmW |-> Zero,
   x   |-> U.x]

\* NIFSGadget::fold_committed_instance: u and x only, cmE and cmW not folded
NIFSFold(r, U, u) ==
  [cmE |-> Zero,
   u   |-> (U.u + r * u.u) % FrModulus,
   cmW |-> Zero,
   x   |-> [k \in 1..Len(U.x) |-> (U.x[k] + r * u.x[k]) % FrModulus]]

\* NIFSGadget::verify: the folded instance, the challenge bits, the transcript
NIFSVerify(transcript, pp_hash, U, U_vec, u, cmT) ==
  LET ch == ChallengeGadget(transcript, pp_hash, U_vec, u, cmT)
      r  == FromBitsLE(ch.bits)
  IN [U1 |-> NIFSFold(r, U, u), r_bits |-> ch.bits, transcript |-> ch.sponge]

\* CycleFoldChallengeGadget::get_challenge_gadget
CycleFoldChallenge(transcript, pp_hash, U_vec, u, cmT) ==
  LET s1 == Absorb[transcript, <<pp_hash>>]
      s2 == Absorb[s1, U_vec]
      s3 == Absorb[s2, Serialize(u)]
      s4 == Absorb[s3, cmT]
  IN SqueezeBits(s4, NBitsRO)

\* NIFSFullGadget::fold_committed_instance: all four fields are folded
NIFSFullFold(r_bits, cmT, ci1, ci2) ==
  LET r  == FromBitsLE(r_bits)
  IN [cmE |-> ECAdd(FrModulus, ECMulLE(FrModulus, r_bits, cmT), ci1.cmE),
      u   |-> (ci1.u + r * ci2.u) % FqModulus,
      cmW |-> ECAdd(FrModulus, ci1.cmW, ECMulLE(FrModulus, r_bits, ci2.cmW)),
      x   |-> [k \in 1..Len(ci1.x) |-> (ci1.x[k] + r * ci2.x[k]) % FqModulus]]

\* the step function F: z_{i+1} = z_i + external_input
FStep(i_usize, z_i, external_inputs) ==
  [k \in 1..Len(z_i) |-> (z_i[k] + external_inputs[k]) % FrModulus]

\* Boolean::select
Select(cond, a, b) == IF cond THEN a ELSE b

\* x.enforce_equal(y) together with the allocation of x as a public input
EnforceInput(cs, x, y) ==
  [inputs |-> Append(cs.inputs, x), constraints |-> Append(cs.constraints, x = y)]

\* cs.is_satisfied()
IsSatisfied(cs) == \A k \in 1..Len(cs.constraints) : cs.constraints[k]

(***************************************************************************)
(* AugmentedFCircuit::generate_constraints, block by block.  b is the      *)
(* witness bundle (self), e the local variables allocated so far.          *)
(***************************************************************************)
\* variant of the allocation in which the base case is never selected
AllocNoBaseCase(b) ==
  LET sponge == SpongeNew
      i == UnwrapOr(b.i, 0)
  IN [pp_hash |-> UnwrapOr(b.pp_hash, 0),
      i |-> i,
      z_0 |-> UnwrapOr(b.z_0, [k \in 1..StateLen |-> 0]),
      z_i |-> UnwrapOr(b.z_i, [k \in 1..StateLen |-> 0]),
      external_inputs |-> UnwrapOr(b.external_inputs, [k \in 1..StateLen |-> 0]),
      U_i |-> UnwrapOr(b.U_i, u_dummy),
      U_i1_cmE |-> UnwrapOr(b.U_i1_cmE, Zero),
      U_i1_cmW |-> UnwrapOr(b.U_i1_cmW, Zero),
      cmT |-> UnwrapOr(b.cmT, Zero),
      cf_U_i |-> UnwrapOr(b.cf_U_i, cf_u_dummy),
      cf1_cmT |-> UnwrapOr(b.cf1_cmT, Zero),
      cf2_cmT |-> UnwrapOr(b.cf2_cmT, Zero),
      sponge |-> sponge,
      transcript |-> sponge,
      is_basecase |-> FALSE,
      cs |-> [inputs |-> <<>>, constraints |-> <<>>]]

\* lines 130-178: witness allocation, the two sponges, is_basecase
Alloc(b) ==
  LET sponge == SpongeNew
      i == UnwrapOr(b.i, 0)
  IN [pp_hash |-> UnwrapOr(b.pp_hash, 0),
      i |-> i,
      z_0 |-> UnwrapOr(b.z_0, [k \in 1..StateLen |-> 0]),
      z_i |-> UnwrapOr(b.z_i, [k \in 1..StateLen |-> 0]),
      external_inputs |-> UnwrapOr(b.external_inputs, [k \in 1..StateLen |-> 0]),
      U_i |-> UnwrapOr(b.U_i, u_dummy),
      U_i1_cmE |-> UnwrapOr(b.U_i1_cmE, Zero),
      U_i1_cmW |-> UnwrapOr(b.U_i1_cmW, Zero),
      cmT |-> UnwrapOr(b.cmT, Zero),
      cf_U_i |-> UnwrapOr(b.cf_U_i, cf_u_dummy),
      cf1_cmT |-> UnwrapOr(b.cf1_cmT, Zero),
      cf2_cmT |-> UnwrapOr(b.cf2_cmT, Zero),
      sponge |-> sponge,
      transcript |-> sponge,
      is_basecase |-> (i = 0),
      cs |-> [inputs |-> <<>>, constraints |-> <<>>]]

\* variant of P.1 in which hashing advances the digest sponge
StepP1Consuming(b, e) ==
  LET h  == HashPrimary(e.sponge, e.pp_hash, e.i, e.z_0, e.z_i, e.U_i)
      cf == HashCycleFold(e.sponge, e.pp_hash, e.cf_U_i)
  IN [e EXCEPT !.sponge = Perm(h[1])]
     @@ [u_i_x |-> h[1], U_i_vec |-> h[2],
         cf_u_i_x |-> cf[1], cf_U_i_vec |-> cf[2]]

\* lines 180-185: P.1, u_i.x
StepP1(b, e) ==
  LET h  == HashPrimary(e.sponge, e.pp_hash, e.i, e.z_0, e.z_i, e.U_i)
      cf == HashCycleFold(e.sponge, e.pp_hash, e.cf_U_i)
  IN e @@ [u_i_x |-> h[1], U_i_vec |-> h[2],
           cf_u_i_x |-> cf[1], cf_U_i_vec |-> cf[2]]

\* variant of P.2 with the two public inputs of u_i exchanged
StepP2Swapped(b, e) ==
  e @@ [u_i |-> [cmE |-> Zero,
                 u   |-> 1,
                 cmW |-> UnwrapOr(b.u_i_cmW, Zero),
                 x   |-> <<e.cf_u_i_x, e.u_i_x>>]]

\* lines 187-199: P.2, u_i
StepP2(b, e) ==
  e @@ [u_i |-> [cmE |-> Zero,
                 u   |-> 1,
                 cmW |-> UnwrapOr(b.u_i_cmW, Zero),
                 x   |-> <<e.u_i_x, e.cf_u_i_x>>]]

\* variant of P.3 that keeps the cmE and cmW returned by nifs.verify
StepP3NoOverride(b, e) ==
  LET v == NIFSVerify(e.transcript, e.pp_hash, e.U_i, e.U_i_vec, e.u_i, e.cmT)
  IN [e EXCEPT !.transcript = v.transcript]
     @@ [U_i1 |-> v.U1, r_bits |-> v.r_bits]

\* lines 201-219: P.3, nifs.verify, then cmE and cmW set to the witnesses
StepP3(b, e) ==
  LET v == NIFSVerify(e.transcript, e.pp_hash, e.U_i, e.U_i_vec, e.u_i, e.cmT)
  IN [e EXCEPT !.transcript = v.transcript]
     @@ [U_i1 |-> [v.U1 EXCEPT !.cmE = e.U_i1_cmE, !.cmW = e.U_i1_cmW],
         r_bits |-> v.r_bits]

\* variant of the conversion that resizes r_bits to one bit too few
StepRNonNatTruncated(b, e) ==
  e @@ [r_nonnat |-> FromBitsLE(Resize(e.r_bits, NBitsRO - 1))]

\* lines 221-226: r_bits as a non-native unsigned integer
StepRNonNat(b, e) ==
  e @@ [r_nonnat |-> FromBitsLE(Resize(e.r_bits, FqBitSize))]

\* lines 228-253: P.4.a, F and the first public output
StepP4a(b, e) ==
  LET i_usize == UnwrapOr(b.i_usize, 0)
      z_i1 == FStep(i_usize, e.z_i, e.external_inputs)
      u_i1_x == HashPrimary(e.sponge, e.pp_hash, (e.i + 1) % FrModulus,
                            e.z_0, z_i1, e.U_i1)[1]
      u_i1_x_base == HashPrimary(e.sponge, e.pp_hash, 1, e.z_0, z_i1, u_dummy)[1]
      x == UnwrapOr(b.x, u_i1_x_base)
  IN [e EXCEPT !.cs = EnforceInput(e.cs, x,
                                   Select(e.is_basecase, u_i1_x_base, u_i1_x))]
     @@ [i_usize |-> i_usize, z_i1 |-> z_i1, u_i1_x |-> u_i1_x,
         u_i1_x_base |-> u_i1_x_base, x |-> x]

\* lines 255-292: C.1 and C.2, the two CycleFold incoming instances
StepC12(b, e) ==
  LET cfW_x == <<e.r_nonnat, e.U_i.cmW[1], e.U_i.cmW[2],
                 e.u_i.cmW[1], e.u_i.cmW[2], e.U_i1.cmW[1], e.U_i1.cmW[2]>>
      cfE_x == <<e.r_nonnat, e.U_i.cmE[1], e.U_i.cmE[2],
                 e.cmT[1], e.cmT[2], e.U_i1.cmE[1], e.U_i1.cmE[2]>>
  IN e @@ [cf1_u_i |-> [cmE |-> Zero, u |-> 1,
                        cmW |-> UnwrapOr(b.cf1_u_i_cmW, Zero), x |-> cfW_x],
           cf2_u_i |-> [cmE |-> Zero, u |-> 1,
                        cmW |-> UnwrapOr(b.cf2_u_i_cmW, Zero), x |-> cfE_x]]

\* lines 294-309: C.3, challenge cf1_r and the fold of cf1_u_i into cf_U_i
StepC3a(b, e) ==
  LET ch == CycleFoldChallenge(e.transcript, e.pp_hash, e.cf_U_i_vec,
                               e.cf1_u_i, e.cf1_cmT)
  IN [e EXCEPT !.transcript = ch.sponge]
     @@ [cf1_r_bits |-> ch.bits,
         cf1_U_i1 |-> NIFSFullFold(ch.bits, e.cf1_cmT, e.cf_U_i, e.cf1_u_i)]

\* variant of the second CycleFold fold that starts again from cf_U_i
StepC3bFromStart(b, e) ==
  LET ch == CycleFoldChallenge(e.transcript, e.pp_hash, Serialize(e.cf1_U_i1),
                               e.cf2_u_i, e.cf2_cmT)
  IN [e EXCEPT !.transcript = ch.sponge]
     @@ [cf2_r_bits |-> ch.bits,
         cf_U_i1 |-> NIFSFullFold(ch.bits, e.cf2_cmT, e.cf_U_i, e.cf2_u_i)]

\* lines 311-322: C.3, challenge cf2_r and the fold of cf2_u_i into cf1_U_{i+1}
StepC3b(b, e) ==
  LET ch == CycleFoldChallenge(e.transcript, e.pp_hash, Serialize(e.cf1_U_i1),
                               e.cf2_u_i, e.cf2_cmT)
  IN [e EXCEPT !.transcript = ch.sponge]
     @@ [cf2_r_bits |-> ch.bits,
         cf_U_i1 |-> NIFSFullFold(ch.bits, e.cf2_cmT, e.cf1_U_i1, e.cf2_u_i)]

\* variant of P.4.b with the two branches of the selection exchanged
StepP4bSwapped(b, e) ==
  LET cf_u_i1_x == HashCycleFold(e.sponge, e.pp_hash, e.cf_U_i1)[1]
      cf_u_i1_x_base == HashCycleFold(e.sponge, e.pp_hash, cf_u_dummy)[1]
      cf_x == UnwrapOr(b.cf_x, cf_u_i1_x_base)
  IN [e EXCEPT !.cs = EnforceInput(e.cs, cf_x,
                                   Select(e.is_basecase, cf_u_i1_x, cf_u_i1_x_base))]
     @@ [cf_u_i1_x |-> cf_u_i1_x, cf_u_i1_x_base |-> cf_u_i1_x_base,
         cf_x |-> cf_x]

\* lines 324-335: P.4.b, the second public output
StepP4b(b, e) ==
  LET cf_u_i1_x == HashCycleFold(e.sponge, e.pp_hash, e.cf_U_i1)[1]
      cf_u_i1_x_base == HashCycleFold(e.sponge, e.pp_hash, cf_u_dummy)[1]
      cf_x == UnwrapOr(b.cf_x, cf_u_i1_x_base)
  IN [e EXCEPT !.cs = EnforceInput(e.cs, cf_x,
                                   Select(e.is_basecase, cf_u_i1_x_base, cf_u_i1_x))]
     @@ [cf_u_i1_x |-> cf_u_i1_x, cf_u_i1_x_base |-> cf_u_i1_x_base,
         cf_x |-> cf_x]

\* the whole synthesis of generate_constraints on bundle b
Synthesize(b) ==
  StepP4b(b, StepC3b(b, StepC3a(b, StepC12(b, StepP4a(b, StepRNonNat(b,
    StepP3(b, StepP2(b, StepP1(b, Alloc(b))))))))))

\* generate_constraints followed by cs.is_satisfied()
Satisfiable(b) == IsSatisfied(Synthesize(b).cs)

(***************************************************************************)
(* Witness bundles (the fields of AugmentedFCircuit).                      *)
(***************************************************************************)
\* the k-th multiple of the generator of C1 (coordinates in F_q)
C1Pt(k) == ECMul(FqModulus, k, G1)

\* the k-th multiple of the generator of C2 (coordinates in F_r)
C2Pt(k) == ECMul(FrModulus, k, G2)

\* a running primary instance that is not the dummy one
U_real == [cmE |-> C1Pt(5), u |-> 3, cmW |-> C1Pt(6), x |-> <<11, 12>>]

\* a running CycleFold instance that is not the dummy one
cf_U_real ==
  [cmE |-> C2Pt(5), u |-> 3, cmW |-> C2Pt(6), x |-> <<1, 2, 3, 4, 5, 6, 7>>]

\* AugmentedFCircuit::empty
EmptyBundle ==
  [pp_hash |-> None, i |-> None, i_usize |-> None, z_0 |-> None, z_i |-> None,
   external_inputs |-> None, u_i_cmW |-> None, U_i |-> None,
   U_i1_cmE |-> None, U_i1_cmW |-> None, cmT |-> None, x |-> None,
   cf1_u_i_cmW |-> None, cf2_u_i_cmW |-> None, cf_U_i |-> None,
   cf1_cmT |-> None, cf2_cmT |-> None, cf_x |-> None]

\* a bundle with every point witness taken from choice pat (0: all absent)
MkBundle(i, i_usize, z0, ext, U_i, cf_U_i, pat) ==
  LET p1(k) == IF pat = 0 THEN None ELSE Some(C1Pt(pat + k))
      p2(k) == IF pat = 0 THEN None ELSE Some(C2Pt(pat + k))
  IN [pp_hash |-> Some(42), i |-> Some(i), i_usize |-> i_usize,
      z_0 |-> Some(<<z0>>), z_i |-> Some(<<z0>>),
      external_inputs |-> Some(<<ext>>),
      u_i_cmW |-> p1(0), U_i |-> U_i,
      U_i1_cmE |-> p1(1), U_i1_cmW |-> p1(2), cmT |-> p1(3), x |-> None,
      cf1_u_i_cmW |-> p2(0), cf2_u_i_cmW |-> p2(1), cf_U_i |-> cf_U_i,
      cf1_cmT |-> p2(2), cf2_cmT |-> p2(3), cf_x |-> None]

\* the public inputs a prover may supply with bundle b: absent, the base-case
\* value, the recursive value, or some other value
WithPublicInputs(b) ==
  LET e == Synthesize(b)
      xs == {None, Some(e.u_i1_x_base), Some(e.u_i1_x),
             Some((e.u_i1_x + 1) % FrModulus)}
      cfxs == {None, Some(e.cf_u_i1_x_base), Some(e.cf_u_i1_x),
               Some((e.cf_u_i1_x + 1) % FrModulus)}
  IN {[b EXCEPT !.x = x, !.cf_x = cf_x] : x \in xs, cf_x \in cfxs}

\* bundles supplied by an arbitrary prover
ProverBundles ==
  UNION {WithPublicInputs(b) : b \in
    UNION {{MkBundle(i, iu, z, MaxZ - z, U, cf_U, pat) :
              iu \in {None, Some(i)},
              z \in 0..MaxZ,
              U \in {None, Some(U_real)}, cf_U \in {None, Some(cf_U_real)},
              pat \in 0..MaxPat} : i \in 0..MaxStep}}

\* the bundle of the first step (i = 0) built by the outer driver
FirstBundle(z0, ext) ==
  LET z1 == FStep(0, <<z0>>, <<ext>>)
  IN [EmptyBundle EXCEPT
        !.pp_hash = Some(42), !.i = Some(0), !.i_usize = Some(0),
        !.z_0 = Some(<<z0>>), !.z_i = Some(<<z0>>),
        !.external_inputs = Some(<<ext>>),
        !.U_i = Some(u_dummy), !.cf_U_i = Some(cf_u_dummy),
        !.x = Some(HashPrimary(SpongeNew, 42, 1, <<z0>>, z1, u_dummy)[1]),
        !.cf_x = Some(HashCycleFold(SpongeNew, 42, cf_u_dummy)[1])]

\* the bundle of step i+1 built by the outer driver from the outcome e of
\* step i: the accumulators move on, the incoming instance carries the public
\* outputs of step i, cmE, cmW of U_{i+1} come from the native fold, and the
\* commitments of the step are those of its witness (here fixed by the step)
NextBundle(e, ext) ==
  LET pat  == e.i + 1
      U    == IF e.i = 0 THEN u_dummy ELSE e.U_i1
      cf_U == IF e.i = 0 THEN cf_u_dummy ELSE e.cf_U_i1
      u    == [cmE |-> Zero, u |-> 1, cmW |-> C1Pt(pat), x |-> <<e.x, e.cf_x>>]
      cmT  == C1Pt(pat + 1)
      r    == FromBitsLE(ChallengeNative(SpongeNew, e.pp_hash, U, u, cmT).bits)
      b0   == [pp_hash |-> Some(e.pp_hash), i |-> Some(e.i + 1),
               i_usize |-> Some(e.i + 1),
               z_0 |-> Some(e.z_0), z_i |-> Some(e.z_i1),
               external_inputs |-> Some(<<ext>>),
               u_i_cmW |-> Some(u.cmW), U_i |-> Some(U),
               U_i1_cmE |-> Some(ECAdd(FqModulus, U.cmE, ECMul(FqModulus, r, cmT))),
               U_i1_cmW |-> Some(ECAdd(FqModulus, U.cmW, ECMul(FqModulus, r, u.cmW))),
               cmT |-> Some(cmT), x |-> None,
               cf1_u_i_cmW |-> Some(C2Pt(pat)), cf2_u_i_cmW |-> Some(C2Pt(pat + 1)),
               cf_U_i |-> Some(cf_U),
               cf1_cmT |-> Some(C2Pt(pat + 2)), cf2_cmT |-> Some(C2Pt(pat + 3)),
               cf_x |-> None]
      n    == Synthesize(b0)
  IN [b0 EXCEPT !.x = Some(n.u_i1_x), !.cf_x = Some(n.cf_u_i1_x)]

(***************************************************************************)
(* The state machine.                                                      *)
(***************************************************************************)
Init ==
  /\ pc = "alloc"
  /\ env = <<>>
  /\ \/ /\ bundle \in ProverBundles \cup {EmptyBundle}
        /\ ivc = [on |-> FALSE, u_x |-> <<0, 0>>]
     \/ /\ \E z0 \in 0..MaxZ, ext \in 0..MaxZ : bundle = FirstBundle(z0, ext)
        /\ ivc = [on |-> TRUE, u_x |-> <<0, 0>>]

Allocate ==
  /\ pc = "alloc"
  /\ env' = Alloc(bundle)
  /\ pc' = "P1"
  /\ UNCHANGED <<bundle, ivc>>

P1 ==
  /\ pc = "P1"
  /\ env' = StepP1(bundle, env)
  /\ pc' = "P2"
  /\ UNCHANGED <<bundle, ivc>>

P2 ==
  /\ pc = "P2"
  /\ env' = StepP2(bundle, env)
  /\ pc' = "P3"
  /\ UNCHANGED <<bundle, ivc>>

P3 ==
  /\ pc = "P3"
  /\ env' = StepP3(bundle, env)
  /\ pc' = "rnonnat"
  /\ UNCHANGED <<bundle, ivc>>

RNonNat ==
  /\ pc = "rnonnat"
  /\ env' = StepRNonNat(bundle, env)
  /\ pc' = "P4a"
  /\ UNCHANGED <<bundle, ivc>>

P4a ==
  /\ pc = "P4a"
  /\ env' = StepP4a(bundle, env)
  /\ pc' = "C12"
  /\ UNCHANGED <<bundle, ivc>>

C12 ==
  /\ pc = "C12"
  /\ env' = StepC12(bundle, env)
  /\ pc' = "C3a"
  /\ UNCHANGED <<bundle, ivc>>

C3a ==
  /\ pc = "C3a"
  /\ env' = StepC3a(bundle, env)
  /\ pc' = "C3b"
  /\ UNCHANGED <<bundle, ivc>>

C3b ==
  /\ pc = "C3b"
  /\ env' = StepC3b(bundle, env)
  /\ pc' = "P4b"
  /\ UNCHANGED <<bundle, ivc>>

P4b ==
  /\ pc = "P4b"
  /\ env' = StepP4b(bundle, env)
  /\ pc' = "done"
  /\ UNCHANGED <<bundle, ivc>>

\* the outer driver starts the next step of the chain
ProveStep ==
  /\ pc = "done"
  /\ ivc.on
  /\ IsSatisfied(env.cs)
  /\ env.i < MaxStep
  /\ \E ext \in 0..MaxZ : bundle' = NextBundle(env, ext)
  /\ ivc' = [on |-> TRUE, u_x |-> <<env.x, env.cf_x>>]
  /\ env' = <<>>
  /\ pc' = "alloc"

Next ==
  \/ Allocate
  \/ P1
  \/ P2
  \/ P3
  \/ RNonNat
  \/ P4a
  \/ C12
  \/ C3a
  \/ C3b
  \/ P4b
  \/ ProveStep

Spec == Init /\ [][Next]_vars

(***************************************************************************)
(* tests::test_challenge_gadget (lines 353-421).                           *)
(***************************************************************************)
\* lines 356-374: the instances, cmT and pp_hash of the test (x of length 1)
TestInstance(u, x, pat) ==
  [cmE |-> C1Pt(pat), u |-> u, cmW |-> C1Pt(pat + 1), x |-> <<x>>]

TestInputs ==
  {[pp_hash |-> 42, u_i |-> TestInstance(a, x, pat),
    U_i |-> TestInstance(c, y, pat + 2), cmT |-> C1Pt(pat + 4)] :
     a \in 0..(MaxZ + 1), c \in 0..(MaxZ + 1), x \in 0..MaxZ, y \in 0..MaxZ,
     pat \in 1..MaxPat}

\* lines 376-385: the challenge computed natively
TestNative(b, e) ==
  LET ch == ChallengeNative(e.transcript, b.pp_hash, b.U_i, b.u_i, b.cmT)
  IN [e EXCEPT !.transcript = ch.sponge]
     @@ [r_bits |-> ch.bits, r |-> FromBitsLE(ch.bits) % FrModulus]

\* lines 387-396: the constraint system, the witnesses and the sponge gadget
TestAlloc(b, e) ==
  e @@ [cs |-> [inputs |-> <<>>, constraints |-> <<>>],
        pp_hashVar |-> b.pp_hash, u_iVar |-> b.u_i, U_iVar |-> b.U_i,
        cmTVar |-> b.cmT, transcriptVar |-> SpongeNew]

\* variant of the in-circuit challenge with cmW serialized before cmE
TestGadgetReordered(b, e) ==
  LET U_iVar_vec == <<e.U_iVar.u>> \o e.U_iVar.x \o e.U_iVar.cmW \o e.U_iVar.cmE
      ch == ChallengeGadget(e.transcriptVar, e.pp_hashVar, U_iVar_vec,
                            e.u_iVar, e.cmTVar)
  IN [e EXCEPT !.transcriptVar = ch.sponge] @@ [r_bitsVar |-> ch.bits]

\* lines 398-414: the challenge computed in-circuit
TestGadget(b, e) ==
  LET U_iVar_vec == <<e.U_iVar.u>> \o e.U_iVar.x \o e.U_iVar.cmE \o e.U_iVar.cmW
      ch == ChallengeGadget(e.transcriptVar, e.pp_hashVar, U_iVar_vec,
                            e.u_iVar, e.cmTVar)
  IN [e EXCEPT !.transcriptVar = ch.sponge] @@ [r_bitsVar |-> ch.bits]

\* lines 415-420: the assertions of the test
TestAssert(b, e) ==
  LET rVar == FromBitsLE(e.r_bitsVar) % FrModulus
  IN e @@ [rVar |-> rVar,
           passed |-> /\ IsSatisfied(e.cs)
                      /\ rVar = e.r
                      /\ e.r_bitsVar = e.r_bits]

InitTest ==
  /\ pc = "t_native"
  /\ bundle \in TestInputs
  /\ env = [transcript |-> SpongeNew]
  /\ ivc = [on |-> FALSE, u_x |-> <<0, 0>>]

TNative ==
  /\ pc = "t_native"
  /\ env' = TestNative(bundle, env)
  /\ pc' = "t_alloc"
  /\ UNCHANGED <<bundle, ivc>>

TAlloc ==
  /\ pc = "t_alloc"
  /\ env' = TestAlloc(bundle, env)
  /\ pc' = "t_gadget"
  /\ UNCHANGED <<bundle, ivc>>

TGadget ==
  /\ pc = "t_gadget"
  /\ env' = TestGadget(bundle, env)
  /\ pc' = "t_assert"
  /\ UNCHANGED <<bundle, ivc>>

TAssert ==
  /\ pc = "t_assert"
  /\ env' = TestAssert(bundle, env)
  /\ pc' = "t_done"
  /\ UNCHANGED <<bundle, ivc>>

NextTest ==
  \/ TNative
  \/ TAlloc
  \/ TGadget
  \/ TAssert

SpecTest == InitTest /\ [][NextTest]_vars

(***************************************************************************)
(* Properties.                                                             *)
(***************************************************************************)
\* the synthesis of the current step is complete
Done == pc = "done"

\* the positions at which the named local variables exist
AfterP2 == pc \in {"P3", "rnonnat", "P4a", "C12", "C3a", "C3b", "P4b", "done"}
AfterP3 == pc \in {"rnonnat", "P4a", "C12", "C3a", "C3b", "P4b", "done"}
AfterC12 == pc \in {"C3a", "C3b", "P4b", "done"}

\* the two public inputs of the finished constraint system
PubX == env.cs.inputs[1]
PubCfX == env.cs.inputs[2]

\* the points on C1 a prover may put in place of a supplied commitment
AltPoints == {Zero} \cup {C1Pt(k) : k \in 1..(MaxPat + 2)}

\* C1: the constraint system is satisfied only if the public input x equals
\* the base-case hash H(pp_hash, 1, z_0, z_{i+1}, dummy) when i = 0 and the
\* recursive hash H(pp_hash, i+1, z_0, z_{i+1}, U_{i+1}) otherwise, and cf_x
\* equals the hash of the dummy CycleFold instance when i = 0 and the hash of
\* cf_U_{i+1} otherwise; any other x or cf_x leaves the system unsatisfied.
PublicOutputsSelected ==
  (Done /\ IsSatisfied(env.cs)) =>
    /\ PubX = IF env.i = 0
              THEN HashPrimary(SpongeNew, env.pp_hash, 1, env.z_0, env.z_i1,
                               u_dummy)[1]
              ELSE HashPrimary(SpongeNew, env.pp_hash, env.i + 1, env.z_0,
                               env.z_i1, env.U_i1)[1]
    /\ PubCfX = IF env.i = 0
                THEN HashCycleFold(SpongeNew, env.pp_hash, cf_u_dummy)[1]
                ELSE HashCycleFold(SpongeNew, env.pp_hash, env.cf_U_i1)[1]

\* a satisfied recursive step whose prover supplied both public inputs and
\* whose base-case values differ from the recursive ones
PublicOutputsSelectedWitness ==
  /\ Done
  /\ IsSatisfied(env.cs)
  /\ env.i # 0
  /\ bundle.x # None
  /\ bundle.cf_x # None
  /\ env.u_i1_x # env.u_i1_x_base
  /\ env.cf_u_i1_x # env.cf_u_i1_x_base

\* C2: when i = 0 and x, cf_x are the base-case values, the system is
\* satisfied whatever the accumulator witnesses, commitments and cross terms.
BaseCaseSatisfied ==
  (/\ Done
   /\ env.i = 0
   /\ PubX = HashPrimary(SpongeNew, env.pp_hash, 1, env.z_0, env.z_i1,
                         u_dummy)[1]
   /\ PubCfX = HashCycleFold(SpongeNew, env.pp_hash, cf_u_dummy)[1])
  => IsSatisfied(env.cs)

\* a base-case step run on accumulators and commitments that are not the
\* dummy ones, with supplied base-case public inputs
BaseCaseSatisfiedWitness ==
  /\ Done
  /\ env.i = 0
  /\ IsSatisfied(env.cs)
  /\ bundle.U_i = Some(U_real)
  /\ bundle.cf_U_i = Some(cf_U_real)
  /\ bundle.cmT # None
  /\ bundle.x # None
  /\ bundle.cf_x # None
  /\ env.u_i1_x # env.u_i1_x_base
  /\ env.cf_u_i1_x # env.cf_u_i1_x_base

\* U_{i+1}.cmE and U_{i+1}.cmW are the supplied witnesses and are the result
\* coordinates of cf2_u_i.x and cf1_u_i.x
CommitmentsPlaced ==
  /\ env.U_i1.cmE = UnwrapOr(bundle.U_i1_cmE, Zero)
  /\ env.U_i1.cmW = UnwrapOr(bundle.U_i1_cmW, Zero)
  /\ SubSeq(env.cf1_u_i.x, 6, 7) = env.U_i1.cmW
  /\ SubSeq(env.cf2_u_i.x, 6, 7) = env.U_i1.cmE

\* the step on bundle b2, which differs from the current bundle in U_{i+1}.cmE
\* or U_{i+1}.cmW only, is unsatisfied unless the digest of the changed U_{i+1}
\* collides with the digest of the current one
RejectedUpToCollision(b2) ==
  LET n == Synthesize(b2)
  IN IsSatisfied(n.cs) => (n.U_i1 # env.U_i1 /\ n.u_i1_x = env.u_i1_x)

\* replacing the supplied cmE alone, or the supplied cmW alone, by any other
\* point makes the step unsatisfied (up to a collision of the digest)
CommitmentsBound ==
  \A c \in AltPoints :
    /\ c # env.U_i1.cmE =>
         RejectedUpToCollision([bundle EXCEPT !.U_i1_cmE = Some(c)])
    /\ c # env.U_i1.cmW =>
         RejectedUpToCollision([bundle EXCEPT !.U_i1_cmW = Some(c)])

FoldChallenges == {0, 1, FrModulus - 1, FromBitsLE(env.r_bits)}

\* C4: the instance returned by the primary NIFS verifier has
\* u = U.u + r * u.u and x[k] = U.x[k] + r * u.x[k] in the native field, for
\* every challenge r including 0 (U.u and U.x returned unchanged) and the
\* largest field element; cmE and cmW of U_{i+1} are the supplied witnesses.
FoldLinear ==
  AfterP3 =>
    LET r == FromBitsLE(env.r_bits)
    IN /\ env.U_i1.u = (env.U_i.u + r * env.u_i.u) % FrModulus
       /\ \A k \in 1..2 :
            env.U_i1.x[k] = (env.U_i.x[k] + r * env.u_i.x[k]) % FrModulus
       /\ env.U_i1.cmE = UnwrapOr(bundle.U_i1_cmE, Zero)
       /\ env.U_i1.cmW = UnwrapOr(bundle.U_i1_cmW, Zero)
       /\ \A rr \in FoldChallenges : \A u \in {env.u_i, U_real} :
            LET V == NIFSFold(rr, env.U_i, u)
            IN /\ V.u = (env.U_i.u + rr * u.u) % FrModulus
               /\ \A k \in 1..2 :
                    V.x[k] = (env.U_i.x[k] + rr * u.x[k]) % FrModulus
               /\ rr = 0 => (V.u = env.U_i.u /\ V.x = env.U_i.x)

\* a fold of a non-dummy accumulator with a non-zero challenge that changes
\* both u and x
FoldLinearWitness ==
  /\ AfterP3
  /\ bundle.U_i = Some(U_real)
  /\ FromBitsLE(env.r_bits) > 1
  /\ env.U_i1.u # env.U_i.u
  /\ env.U_i1.x[1] # env.U_i.x[1]
  /\ env.U_i1.x[2] # env.U_i.x[2]
  /\ bundle.U_i1_cmE # None

ChainContinuity ==
  ivc.on =>
    /\ Done => IsSatisfied(env.cs)
    /\ (Done /\ env.i = 0) =>
         /\ env.z_i1 = FStep(0, env.z_0, env.external_inputs)
         /\ PubX = HashPrimary(SpongeNew, 42, 1, env.z_0, env.z_i1, u_dummy)[1]
         /\ PubCfX = HashCycleFold(SpongeNew, 42, cf_u_dummy)[1]
    /\ (Done /\ env.i = 1) =>
         /\ env.U_i1.u = (env.U_i.u + FromBitsLE(env.r_bits)) % FrModulus
         /\ PubX = HashPrimary(SpongeNew, 42, 2, env.z_0, env.z_i1, env.U_i1)[1]
         /\ PubCfX = HashCycleFold(SpongeNew, 42, env.cf_U_i1)[1]
    /\ AfterP2 =>
         /\ env.u_i.u = 1
         /\ env.u_i.cmE = Zero
         /\ env.u_i.x[1] = HashPrimary(SpongeNew, 42, env.i, env.z_0, env.z_i,
                                       env.U_i)[1]
         /\ env.u_i.x[2] = HashCycleFold(SpongeNew, 42, env.cf_U_i)[1]
         /\ env.i >= 1 => env.u_i.x = ivc.u_x

\* the second step of a chain, finished and satisfied
ChainContinuityWitness ==
  /\ ivc.on
  /\ Done
  /\ env.i = 1
  /\ IsSatisfied(env.cs)
  /\ env.u_i.x = ivc.u_x
  /\ env.U_i1 # env.U_i

\* the calls of the two digest hashes made by a finished step, each as the
\* pair of its arguments and its output
HashCalls ==
  {<<<<"primary", env.pp_hash, env.i, env.z_0, env.z_i, env.U_i>>, env.u_i_x>>,
   <<<<"primary", env.pp_hash, (env.i + 1) % FrModulus, env.z_0, env.z_i1,
       env.U_i1>>, env.u_i1_x>>,
   <<<<"primary", env.pp_hash, 1, env.z_0, env.z_i1, u_dummy>>,
     env.u_i1_x_base>>,
   <<<<"cyclefold", env.pp_hash, env.cf_U_i>>, env.cf_u_i_x>>,
   <<<<"cyclefold", env.pp_hash, env.cf_U_i1>>, env.cf_u_i1_x>>,
   <<<<"cyclefold", env.pp_hash, cf_u_dummy>>, env.cf_u_i1_x_base>>}

\* C7: the digest sponge is in its initial state at every hash call, so two
\* hash calls on equal arguments give equal outputs, whatever the challenge
\* transcript has absorbed in between.
DigestSpongeFresh ==
  /\ pc \in {"P1", "P2", "P3", "rnonnat", "P4a", "C12", "C3a", "C3b", "P4b",
             "done"} => env.sponge = SpongeNew
  /\ Done => \A c1 \in HashCalls : \A c2 \in HashCalls :
               c1[1] = c2[1] => c1[2] = c2[2]

\* a finished step in which two hash calls had equal arguments, separated by
\* challenge derivations that advanced the transcript
DigestSpongeFreshWitness ==
  /\ Done
  /\ env.transcript # env.sponge
  /\ env.cf_U_i = cf_u_dummy
  /\ env.cf_u_i_x = env.cf_u_i1_x_base

\* C8: cf1_u_i.x is [r, U_i.cmW, u_i.cmW, U_{i+1}.cmW] and cf2_u_i.x is
\* [r, U_i.cmE, cmT, U_{i+1}.cmE], points as their two coordinates, with
\* u = 1 and cmE the identity; r has the bits of the primary challenge r_bits
\* resized to the width of the scalar field; U_{i+1}.cmE and U_{i+1}.cmW are
\* the supplied witnesses.
CycleFoldInputsLayout ==
  AfterC12 =>
    /\ env.cf1_u_i.x = <<env.r_nonnat>> \o env.U_i.cmW \o env.u_i.cmW
                         \o UnwrapOr(bundle.U_i1_cmW, Zero)
    /\ env.cf2_u_i.x = <<env.r_nonnat>> \o env.U_i.cmE \o env.cmT
                         \o UnwrapOr(bundle.U_i1_cmE, Zero)
    /\ Len(env.cf1_u_i.x) = IO_LEN
    /\ Len(env.cf2_u_i.x) = IO_LEN
    /\ env.cf1_u_i.u = 1 /\ env.cf2_u_i.u = 1
    /\ env.cf1_u_i.cmE = Zero /\ env.cf2_u_i.cmE = Zero
    /\ env.cf1_u_i.cmW = UnwrapOr(bundle.cf1_u_i_cmW, Zero)
    /\ env.cf2_u_i.cmW = UnwrapOr(bundle.cf2_u_i_cmW, Zero)
    /\ Len(env.r_bits) <= FqBitSize
    /\ ToBitsLE(env.r_nonnat, FqBitSize) =
         env.r_bits \o [k \in 1..(FqBitSize - Len(env.r_bits)) |-> 0]

\* the two CycleFold instances of a step with supplied commitments, a
\* non-dummy accumulator and a challenge whose top bit is set
CycleFoldInputsLayoutWitness ==
  /\ AfterC12
  /\ bundle.U_i = Some(U_real)
  /\ bundle.U_i1_cmW # None
  /\ env.r_bits[NBitsRO] = 1
  /\ env.cf1_u_i.x # env.cf2_u_i.x

\* C9: the primary challenge is derived first; cf1_u_i is folded into cf_U_i
\* with a challenge drawn from the transcript left by the primary challenge,
\* giving cf1_U_{i+1}; cf2_u_i is folded into cf1_U_{i+1} with a challenge
\* drawn from the transcript left by the first CycleFold challenge, giving
\* cf_U_{i+1}; the recursive value of cf_x is the hash of cf_U_{i+1}.
CycleFoldOrder ==
  Done =>
    LET t0 == ChallengeGadget(SpongeNew, env.pp_hash, Serialize(env.U_i),
                              env.u_i, env.cmT)
        c1 == CycleFoldChallenge(t0.sponge, env.pp_hash, Serialize(env.cf_U_i),
                                 env.cf1_u_i, env.cf1_cmT)
        F1 == NIFSFullFold(c1.bits, env.cf1_cmT, env.cf_U_i, env.cf1_u_i)
        c2 == CycleFoldChallenge(c1.sponge, env.pp_hash, Serialize(F1),
                                 env.cf2_u_i, env.cf2_cmT)
        F2 == NIFSFullFold(c2.bits, env.cf2_cmT, F1, env.cf2_u_i)
    IN /\ env.r_bits = t0.bits
       /\ env.cf1_r_bits = c1.bits
       /\ env.cf1_U_i1 = F1
       /\ env.cf2_r_bits = c2.bits
       /\ env.cf_U_i1 = F2
       /\ env.transcript = c2.sponge
       /\ env.cf_u_i1_x = HashCycleFold(SpongeNew, env.pp_hash, F2)[1]

\* a finished step on a non-dummy CycleFold accumulator in which both folds
\* changed the accumulator
CycleFoldOrderWitness ==
  /\ Done
  /\ bundle.cf_U_i = Some(cf_U_real)
  /\ bundle.cf1_cmT # None
  /\ env.cf1_U_i1 # env.cf_U_i
  /\ env.cf_U_i1 # env.cf1_U_i1
  /\ FromBitsLE(env.cf1_r_bits) # 0
  /\ FromBitsLE(env.cf2_r_bits) # 0

\* C10: in a satisfied step the index handed to the step function F is the
\* step index i that the public-output hashes bind.
StepIndexBound ==
  (Done /\ IsSatisfied(env.cs)) => env.i_usize = env.i

====
